---- MODULE Spec2Model ----
(***************************************************************************)
(* mmv: batch renaming of the files that match a wildcard pattern.         *)
(* A string is a sequence of one-character strings.  Byte offsets of the   *)
(* source (0-based, end exclusive) are positions 1..Len+1 here.            *)
(***************************************************************************)
EXTENDS Integers, Sequences, FiniteSets, TLC

VARIABLES
    \* FileMatcher on one filename (file_matcher.rs)
    source_pattern, filename, is_match, file_matches,
    \* insert_matches_in_target on one template (pattern.rs)
    matches, target, inserted, matches2, inserted2,
    \* one invocation of the tool after the other (main.rs, file_move.rs):
    \* the arguments, the file system, the FilesMover's vector and the place
    \* of its loop, what was printed, and what run returned
    force_move, source_path, target_path, fs, files_to_move, next, stdout,
    result, pc, run_no,
    \* history: the file system when the invocation started, and the pairs
    \* for which fs::rename returned Ok
    fs0, renamed

matchVars == <<source_pattern, filename, is_match, file_matches>>
insertVars == <<matches, target, inserted, matches2, inserted2>>
argVars == <<force_move, source_path, target_path>>
runVars == <<argVars, fs, files_to_move, next, stdout, result, pc, run_no, fs0, renamed>>
vars == <<matchVars, insertVars, runVars>>

\* ------------------------------------------------------------- bounds
MaxPatternLen == 3
MaxFilenameLen == 4

PatternChars == {"a", ".", "*", "+"}
FilenameChars == {"a", ".", "+"}

StringsUpTo(S, n) == UNION {[1..k -> S] : k \in 0..n}

Min(S) == CHOOSE x \in S : \A y \in S : x <= y

\* ------------------------------------------------- regex_syntax, regex
\* regex_syntax::is_meta_character
RegexMeta ==
    {"\\", ".", "+", "*", "?", "(", ")", "|", "[", "]", "{", "}", "^", "$",
     "#", "&", "-", "~"}

\* regex_syntax::escape: a backslash before every meta character
RECURSIVE escape(_)
escape(text) ==
    IF text = <<>> THEN <<>>
    ELSE (IF Head(text) \in RegexMeta THEN <<"\\", Head(text)>> ELSE <<Head(text)>>)
         \o escape(Tail(text))

\* str::replace: every non-overlapping occurrence of from, left to right
RECURSIVE replace(_, _, _)
replace(s, from, to) ==
    IF Len(s) < Len(from) THEN s
    ELSE IF SubSeq(s, 1, Len(from)) = from
         THEN to \o replace(SubSeq(s, Len(from) + 1, Len(s)), from, to)
         ELSE <<Head(s)>> \o replace(Tail(s), from, to)

EscapedStar == <<"\\", "*">>
CaptureGroup == <<"(", "[", "^", ".", "]", "*", ")">>

\* variant: the end anchor left out
pattern_to_regex_unanchored(pattern) ==
    <<"^">> \o replace(escape(pattern), EscapedStar, CaptureGroup)

\* FileMatcher::pattern_to_regex
pattern_to_regex(pattern) ==
    <<"^">> \o replace(escape(pattern), EscapedStar, CaptureGroup) \o <<"$">>

\* Regex::new on the syntax pattern_to_regex can produce: anchors, escaped
\* literals, plain literals, the unescaped dot and the group ([^.]*).
RECURSIVE Regex_new(_)
Regex_new(re) ==
    IF re = <<>> THEN <<>>
    ELSE LET c == Head(re) IN
         IF c = "\\" /\ Len(re) >= 2
         THEN <<[t |-> "lit", c |-> re[2]]>> \o Regex_new(SubSeq(re, 3, Len(re)))
         ELSE IF Len(re) >= Len(CaptureGroup)
                 /\ SubSeq(re, 1, Len(CaptureGroup)) = CaptureGroup
         THEN <<[t |-> "group", c |-> "."]>>
              \o Regex_new(SubSeq(re, Len(CaptureGroup) + 1, Len(re)))
         ELSE IF c = "^" THEN <<[t |-> "start", c |-> c]>> \o Regex_new(Tail(re))
         ELSE IF c = "$" THEN <<[t |-> "end", c |-> c]>> \o Regex_new(Tail(re))
         ELSE IF c = "." THEN <<[t |-> "any", c |-> c]>> \o Regex_new(Tail(re))
         ELSE <<[t |-> "lit", c |-> c]>> \o Regex_new(Tail(re))

NoMatch == [ok |-> FALSE, end |-> 0, caps |-> <<>>]

\* the longest run of characters other than the dot that starts at pos
RECURSIVE NonDotRun(_, _)
NonDotRun(text, pos) ==
    IF pos > Len(text) \/ text[pos] = "." THEN 0 ELSE 1 + NonDotRun(text, pos + 1)

\* The regex crate's leftmost-first match of prog[k..] at pos: a group is
\* greedy, it takes the longest run first and gives characters back one at a
\* time.  caps holds the spans of the groups, in the order they open.
RECURSIVE exec(_, _, _, _)
RECURSIVE exec_group(_, _, _, _, _)
exec(prog, k, text, pos) ==
    IF k > Len(prog) THEN [ok |-> TRUE, end |-> pos, caps |-> <<>>]
    ELSE LET t == prog[k].t IN
         IF t = "start"
         THEN IF pos = 1 THEN exec(prog, k + 1, text, pos) ELSE NoMatch
         ELSE IF t = "end"
         THEN IF pos = Len(text) + 1 THEN exec(prog, k + 1, text, pos) ELSE NoMatch
         ELSE IF t = "lit"
         THEN IF pos <= Len(text) /\ text[pos] = prog[k].c
              THEN exec(prog, k + 1, text, pos + 1) ELSE NoMatch
         ELSE IF t = "any"
         THEN IF pos <= Len(text) THEN exec(prog, k + 1, text, pos + 1) ELSE NoMatch
         ELSE exec_group(prog, k, text, pos, NonDotRun(text, pos))

exec_group(prog, k, text, pos, n) ==
    LET r == exec(prog, k + 1, text, pos + n) IN
    IF r.ok
    THEN [ok |-> TRUE, end |-> r.end,
          caps |-> <<[start |-> pos, end |-> pos + n]>> \o r.caps]
    ELSE IF n = 0 THEN NoMatch ELSE exec_group(prog, k, text, pos, n - 1)

\* Regex::is_match: a match starting anywhere in the text
Regex_is_match(prog, text) ==
    \E s \in 1..(Len(text) + 1) : exec(prog, 1, text, s).ok

\* Regex::captures_iter: the successive non-overlapping matches; each item
\* is the span of the whole match (group 0) followed by the groups' spans.
RECURSIVE captures_iter(_, _, _)
captures_iter(prog, text, from) ==
    LET starts == {s \in from..(Len(text) + 1) : exec(prog, 1, text, s).ok} IN
    IF starts = {} THEN <<>>
    ELSE LET s == Min(starts)
             r == exec(prog, 1, text, s)
         IN  <<(<<[start |-> s, end |-> r.end]>> \o r.caps)>>
             \o captures_iter(prog, text, IF r.end > s THEN r.end ELSE s + 1)

\* ------------------------------------------------------- FileMatcher
\* FileMatcher::is_file_match_pattern
is_file_match_pattern(pattern, name) ==
    Regex_is_match(Regex_new(pattern_to_regex(pattern)), name)

\* variant: every group pushed, also one with an empty span
push_groups_keep_empty(name, caps, i) ==
    [j \in 1..(Len(caps) - 1) |-> SubSeq(name, caps[j + 1].start, caps[j + 1].end - 1)]

\* the inner loop of get_file_matches over one Captures value
RECURSIVE push_groups(_, _, _)
push_groups(name, caps, i) ==
    IF i > Len(caps) THEN <<>>
    ELSE (IF i # 1 /\ caps[i].start # caps[i].end
          THEN <<SubSeq(name, caps[i].start, caps[i].end - 1)>>
          ELSE <<>>)
         \o push_groups(name, caps, i + 1)

RECURSIVE push_all(_, _)
push_all(name, all) ==
    IF all = <<>> THEN <<>>
    ELSE push_groups(name, Head(all), 1) \o push_all(name, Tail(all))

\* FileMatcher::get_file_matches
get_file_matches(pattern, name) ==
    push_all(name, captures_iter(Regex_new(pattern_to_regex(pattern)), name, 1))

\* ------------------------------------------------------- pattern.rs
\* Results: kind is "Ok" or the MassMoveError variant; value is the string
\* carried (the filename of Ok, the path or pattern of an error); pos is the
\* position that InvalidTargetPath's message "position #{i} not exist in
\* source path" names.
\* usize: 64 bits on the targets the program is built for, held as LimbCount
\* limbs below LimbBase (16 bits each), least significant first, so that
\* every intermediate value stays a small integer
LimbBase == 65536
LimbCount == 4

\* `n as usize` of a non-negative n below LimbBase * LimbBase
usize(n) == <<n % LimbBase, n \div LimbBase>> \o [k \in 1..(LimbCount - 2) |-> 0]

\* i <= matches.len() for a usize i and a length below LimbBase
usize_le(i, n) == (\A k \in 2..LimbCount : i[k] = 0) /\ i[1] <= n

\* match_index * 10 + carry from limb k on, after the limbs below k
RECURSIVE carry_limbs(_, _, _, _)
carry_limbs(match_index, k, carry, limbs) ==
    IF k > LimbCount
    THEN [value |-> limbs, overflow |-> carry # 0]
    ELSE LET t == match_index[k] * 10 + carry IN
         carry_limbs(match_index, k + 1, t \div LimbBase, Append(limbs, t % LimbBase))

\* match_index * 10 + digit in the full width: value is the result modulo
\* 2^64, overflow says whether the multiplication or the addition exceeded
\* usize::MAX
mul10_add(match_index, digit) == carry_limbs(match_index, 1, digit, <<>>)

Ok(s) == [kind |-> "Ok", value |-> s, pos |-> usize(0)]
Err(kind, s) == [kind |-> kind, value |-> s, pos |-> usize(0)]
ErrPosition(i) == [kind |-> "InvalidTargetPath", value |-> <<>>, pos |-> i]

\* the thread panics ("attempt to multiply with overflow", "attempt to add
\* with overflow"): no Result is returned and the process ends with code 101
Panic == [kind |-> "panic", value |-> <<>>, pos |-> usize(0)]

Digits == <<"0", "1", "2", "3", "4", "5", "6", "7", "8", "9">>

\* char::is_ascii_digit
is_ascii_digit(c) == \E d \in 1..Len(Digits) : Digits[d] = c

\* char::to_digit(10) of an ASCII digit
to_digit(c) == (CHOOSE d \in 1..Len(Digits) : Digits[d] = c) - 1

\* variant: position 0 accepted and replaced by nothing
insert_match_zero_is_empty(captures, new_filename, i) ==
    IF usize_le(i, Len(captures))
    THEN Ok(new_filename \o (IF i = usize(0) THEN <<>> ELSE captures[i[1]]))
    ELSE ErrPosition(i)

\* variant: the capture before the one asked for
insert_match_off_by_one(captures, new_filename, i) ==
    IF i # usize(0) /\ usize_le(i, Len(captures))
    THEN Ok(new_filename \o captures[IF i[1] > 1 THEN i[1] - 1 ELSE i[1]])
    ELSE ErrPosition(i)

\* insert_match_in_filename: captures[i] is matches[i - 1] of the source
insert_match_in_filename(captures, new_filename, i) ==
    IF i # usize(0) /\ usize_le(i, Len(captures))
    THEN Ok(new_filename \o captures[i[1]])
    ELSE ErrPosition(i)

\* the loop of insert_matches_in_target over the characters left, with the
\* locals new_filename, is_matching and match_index; `?` returns the error.
\* match_index is a usize: when the accumulation exceeds usize::MAX, a build
\* with overflow checks (the dev and test profiles) panics and a build
\* without them (the release profile) goes on with the wrapped value.
RECURSIVE scan(_, _, _, _, _, _)
scan(captures, rest, new_filename, is_matching, match_index, overflow_checks) ==
    IF rest = <<>>
    THEN IF is_matching
         THEN insert_match_in_filename(captures, new_filename, match_index)
         ELSE Ok(new_filename)
    ELSE LET c == Head(rest) IN
         IF c # "#" /\ ~is_matching
         THEN scan(captures, Tail(rest), new_filename \o <<c>>, is_matching, match_index,
                   overflow_checks)
         ELSE IF is_matching /\ is_ascii_digit(c)
         THEN LET sum == mul10_add(match_index, to_digit(c)) IN
              IF sum.overflow /\ overflow_checks
              THEN Panic
              ELSE scan(captures, Tail(rest), new_filename, is_matching, sum.value,
                        overflow_checks)
         ELSE IF c = "#"
         THEN IF is_matching
              THEN LET r == insert_match_in_filename(captures, new_filename, match_index)
                   IN  IF r.kind # "Ok" THEN r
                       ELSE scan(captures, Tail(rest), r.value, TRUE, usize(0),
                                 overflow_checks)
              ELSE scan(captures, Tail(rest), new_filename, TRUE, usize(0), overflow_checks)
         ELSE IF is_matching
              THEN LET r == insert_match_in_filename(captures, new_filename, match_index)
                   IN  IF r.kind # "Ok" THEN r
                       ELSE scan(captures, Tail(rest), r.value \o <<c>>, FALSE, usize(0),
                                 overflow_checks)
              ELSE scan(captures, Tail(rest), new_filename \o <<c>>, is_matching, match_index,
                        overflow_checks)

\* insert_matches_in_target
insert_matches_in_target(captures, pattern, overflow_checks) ==
    scan(captures, pattern, <<>>, FALSE, usize(0), overflow_checks)


\* ---------------------------------------------------- paths, the OS
\* Paths are relative, with `/` between the components and neither a
\* trailing slash nor `.` or `..` components.
LastSlash(path) ==
    IF \E i \in 1..Len(path) : path[i] = "/"
    THEN CHOOSE i \in 1..Len(path) :
             path[i] = "/" /\ \A j \in (i + 1)..Len(path) : path[j] # "/"
    ELSE 0

\* Path::file_name and Path::parent: <<>> stands for None in has_*, and
\* parent is the empty path for a bare file name
file_name(path) == SubSeq(path, LastSlash(path) + 1, Len(path))
has_file_name(path) == file_name(path) # <<>>
has_parent(path) == path # <<>>
parent(path) == SubSeq(path, 1, LastSlash(path) - 1)

\* Path::join
join(dir, name) == IF dir = <<>> THEN name ELSE dir \o <<"/">> \o name

\* Path::exists
exists(fsys, path) == path \in DOMAIN fsys

is_dir(fsys, path) == path = <<>> \/ (exists(fsys, path) /\ fsys[path].is_dir)

\* the entries fs::read_dir yields for a directory
entries(fsys, dir) ==
    {p \in DOMAIN fsys : has_file_name(p) /\ parent(p) = dir}

\* fs::rename of a regular file: it fails when the operating system refuses
\* (os_error: permissions, another device, ...), when the source is gone,
\* when the target's directory is no directory and when the target is a
\* directory; otherwise the target, replaced if it exists, holds the file.
fs_rename(fsys, from, to, os_error) ==
    IF \/ os_error
       \/ ~exists(fsys, from)
       \/ ~has_file_name(to)
       \/ ~is_dir(fsys, parent(to))
       \/ (exists(fsys, to) /\ fsys[to].is_dir)
    THEN [ok |-> FALSE, fs |-> fsys]
    ELSE IF from = to THEN [ok |-> TRUE, fs |-> fsys]
    ELSE [ok |-> TRUE,
          fs |-> [p \in (DOMAIN fsys \ {from}) \cup {to} |->
                     IF p = to THEN fsys[from] ELSE fsys[p]]]

\* ------------------------------------------------- file_matcher.rs
\* FileMatcher::from_source_path
from_source_path(path) ==
    IF ~has_file_name(path) \/ ~has_parent(path)
    THEN [kind |-> "InvalidSourcePath", value |-> path, pos |-> usize(0),
          source_pattern |-> <<>>, source_directory |-> <<>>]
    ELSE [kind |-> "Ok", value |-> <<>>, pos |-> usize(0),
          source_pattern |-> file_name(path), source_directory |-> parent(path)]

\* FileMatcher::read_source_directory
read_source_directory(fsys, matcher) ==
    IF is_dir(fsys, matcher.source_directory)
    THEN Ok(<<>>)
    ELSE Err("DirectoryNotFound", matcher.source_directory)

\* the loop of collect_matched_files over the entries in the order the
\* directory yields them
RECURSIVE matched_files(_, _, _)
matched_files(fsys, matcher, listing) ==
    IF listing = <<>> THEN <<>>
    ELSE (IF /\ ~fsys[Head(listing)].is_dir
             /\ is_file_match_pattern(matcher.source_pattern, file_name(Head(listing)))
          THEN <<file_name(Head(listing))>>
          ELSE <<>>)
         \o matched_files(fsys, matcher, Tail(listing))

\* variant: no error when nothing matches
collect_matched_files_allow_none(fsys, matcher, listing) ==
    LET directory == read_source_directory(fsys, matcher) IN
    IF directory.kind # "Ok" THEN directory @@ [files |-> <<>>]
    ELSE Ok(<<>>) @@ [files |-> matched_files(fsys, matcher, listing)]

\* FileMatcher::collect_matched_files
collect_matched_files(fsys, matcher, listing) ==
    LET directory == read_source_directory(fsys, matcher) IN
    IF directory.kind # "Ok" THEN directory @@ [files |-> <<>>]
    ELSE LET files == matched_files(fsys, matcher, listing) IN
         IF files = <<>>
         THEN Err("NoFilesForPattern", matcher.source_pattern) @@ [files |-> <<>>]
         ELSE Ok(<<>>) @@ [files |-> files]

\* FileMatcher::get_files_with_matches
get_files_with_matches(fsys, matcher, listing) ==
    LET collected == collect_matched_files(fsys, matcher, listing) IN
    [kind |-> collected.kind, value |-> collected.value, pos |-> usize(0),
     files |-> [i \in 1..Len(collected.files) |->
                  [filepath |-> join(matcher.source_directory, collected.files[i]),
                   matches |-> get_file_matches(matcher.source_pattern,
                                                collected.files[i])]]]

\* ----------------------------------------------------------- main.rs
\* variant: a file whose target cannot be resolved ends the list, and the
\* pairs resolved before it are moved
RECURSIVE build_files_to_move_keep_resolved(_, _, _)
build_files_to_move_keep_resolved(files_with_matches, template, overflow_checks) ==
    IF files_with_matches = <<>> THEN Ok(<<>>) @@ [pairs |-> <<>>]
    ELSE LET file_with_match == Head(files_with_matches)
             target_filepath == insert_matches_in_target(file_with_match.matches, template,
                                                        overflow_checks)
         IN  IF target_filepath.kind # "Ok" THEN Ok(<<>>) @@ [pairs |-> <<>>]
             ELSE LET more == build_files_to_move_keep_resolved(Tail(files_with_matches),
                                                                template, overflow_checks)
                  IN  Ok(<<>>) @@
                      [pairs |-> <<[from |-> file_with_match.filepath,
                                    to |-> target_filepath.value]>> \o more.pairs]

\* the loop of run that builds files_to_move; `?` returns the first error
RECURSIVE build_files_to_move(_, _, _)
build_files_to_move(files_with_matches, template, overflow_checks) ==
    IF files_with_matches = <<>> THEN Ok(<<>>) @@ [pairs |-> <<>>]
    ELSE LET file_with_match == Head(files_with_matches)
             target_filepath == insert_matches_in_target(file_with_match.matches, template,
                                                        overflow_checks)
         IN  IF target_filepath.kind # "Ok" THEN target_filepath @@ [pairs |-> <<>>]
             ELSE LET more == build_files_to_move(Tail(files_with_matches), template,
                                                  overflow_checks) IN
                  IF more.kind # "Ok" THEN more
                  ELSE Ok(<<>>) @@
                       [pairs |-> <<[from |-> file_with_match.filepath,
                                     to |-> target_filepath.value]>> \o more.pairs]

\* run, up to the construction of the FilesMover
prepare(fsys, source, template, listing, overflow_checks) ==
    LET matcher == from_source_path(source) IN
    IF matcher.kind # "Ok"
    THEN [kind |-> matcher.kind, value |-> matcher.value, pos |-> usize(0), pairs |-> <<>>]
    ELSE LET files_with_matches == get_files_with_matches(fsys, matcher, listing) IN
         IF files_with_matches.kind # "Ok"
         THEN [kind |-> files_with_matches.kind, value |-> files_with_matches.value,
               pos |-> usize(0), pairs |-> <<>>]
         ELSE build_files_to_move(files_with_matches.files, template, overflow_checks)

\* -------------------------------------------------------- file_move.rs
\* variant: an existing target refused whatever the flag
correct_target_path_ignore_force(fsys, force, path) ==
    IF ~has_parent(path) THEN Err("InvalidTargetPath", path)
    ELSE IF parent(path) # <<>> /\ ~exists(fsys, parent(path))
    THEN Err("DirectoryNotFound", parent(path))
    ELSE IF exists(fsys, path)
    THEN Err("FileAlreadyExists", path)
    ELSE Ok(<<>>)

\* variant: an existing target accepted whatever the flag
correct_target_path_accept_existing(fsys, force, path) ==
    IF ~has_parent(path) THEN Err("InvalidTargetPath", path)
    ELSE IF parent(path) # <<>> /\ ~exists(fsys, parent(path))
    THEN Err("DirectoryNotFound", parent(path))
    ELSE Ok(<<>>)

\* FilesMover::correct_target_path
correct_target_path(fsys, force, path) ==
    IF ~has_parent(path) THEN Err("InvalidTargetPath", path)
    ELSE IF parent(path) # <<>> /\ ~exists(fsys, parent(path))
    THEN Err("DirectoryNotFound", parent(path))
    ELSE IF ~force /\ exists(fsys, path)
    THEN Err("FileAlreadyExists", path)
    ELSE Ok(<<>>)

\* println!("{} -> {}", from, to)
confirmation(from, to) == from \o <<" ", "-", ">", " ">> \o to

\* variant: the confirmation printed whatever the outcome
move_file_print_always(fsys, force, from, to, os_error) ==
    LET valid == correct_target_path(fsys, force, to)
        moved == fs_rename(fsys, from, to, os_error)
    IN  IF valid.kind # "Ok"
        THEN [result |-> valid, fs |-> fsys, printed |-> <<confirmation(from, to)>>,
              renamed |-> <<>>]
        ELSE IF moved.ok
        THEN [result |-> Ok(<<>>), fs |-> moved.fs,
              printed |-> <<confirmation(from, to)>>,
              renamed |-> <<[from |-> from, to |-> to]>>]
        ELSE [result |-> Err("MoveError", from), fs |-> fsys,
              printed |-> <<confirmation(from, to)>>, renamed |-> <<>>]

\* FilesMover::move_file
move_file(fsys, force, from, to, os_error) ==
    LET valid == correct_target_path(fsys, force, to)
        moved == fs_rename(fsys, from, to, os_error)
    IN  IF valid.kind # "Ok"
        THEN [result |-> valid, fs |-> fsys, printed |-> <<>>, renamed |-> <<>>]
        ELSE IF moved.ok
        THEN [result |-> Ok(<<>>), fs |-> moved.fs,
              printed |-> <<confirmation(from, to)>>,
              renamed |-> <<[from |-> from, to |-> to]>>]
        ELSE [result |-> Err("MoveError", from), fs |-> fsys,
              printed |-> <<>>, renamed |-> <<>>]


\* --------------------------------------------------- specification
\* no result yet; and the variables of the tool's run where no run is modelled
NoResult == [kind |-> "", value |-> <<>>, pos |-> usize(0)]

IdleRun ==
    /\ force_move = FALSE /\ source_path = <<>> /\ target_path = <<>>
    /\ fs = <<>> /\ fs0 = <<>> /\ files_to_move = <<>> /\ next = 0
    /\ stdout = <<>> /\ renamed = <<>> /\ result = NoResult /\ pc = "idle"
    /\ run_no = 0

InitMatch ==
    /\ source_pattern \in StringsUpTo(PatternChars, MaxPatternLen)
    /\ filename \in StringsUpTo(FilenameChars, MaxFilenameLen)
    /\ is_match = <<>>
    /\ file_matches = <<>>
    /\ matches = <<>> /\ target = <<>> /\ inserted = <<>>
    /\ matches2 = <<>> /\ inserted2 = <<>>
    /\ IdleRun

IsFileMatchPattern ==
    /\ is_match = <<>>
    /\ is_match' = <<is_file_match_pattern(source_pattern, filename)>>
    /\ UNCHANGED <<source_pattern, filename, file_matches, insertVars, runVars>>

GetFileMatches ==
    /\ file_matches = <<>>
    /\ file_matches' = <<get_file_matches(source_pattern, filename)>>
    /\ UNCHANGED <<source_pattern, filename, is_match, insertVars, runVars>>

NextMatch == IsFileMatchPattern \/ GetFileMatches

SpecMatch == InitMatch /\ [][NextMatch]_vars

\* One template and one capture list, then a second capture list of the same
\* length on the same template.
MaxTemplateLen == 4
MaxCaptures == 2

TemplateChars == {"#", "0", "1", "2", "a"}
\* what a wildcard can have consumed: never empty
CaptureValues == {<<"x">>, <<"x", "x">>, <<"#">>}

CaptureLists == UNION {[1..n -> CaptureValues] : n \in 0..MaxCaptures}

InitInsert ==
    /\ matches \in CaptureLists
    /\ target \in StringsUpTo(TemplateChars, MaxTemplateLen)
    /\ inserted = <<>>
    /\ matches2 = <<>> /\ inserted2 = <<>>
    /\ source_pattern = <<>> /\ filename = <<>> /\ is_match = <<>>
    /\ file_matches = <<>>
    /\ IdleRun

InsertMatchesInTarget ==
    /\ inserted = <<>>
    /\ inserted' \in {<<insert_matches_in_target(matches, target, overflow_checks)>> :
                        overflow_checks \in BOOLEAN}
    /\ UNCHANGED <<matches, target, matches2, inserted2, matchVars, runVars>>

InsertOtherMatches ==
    /\ inserted # <<>>
    /\ inserted2 = <<>>
    /\ \E other \in CaptureLists :
          /\ Len(other) = Len(matches)
          /\ matches2' = other
          /\ inserted2' \in {<<insert_matches_in_target(other, target, overflow_checks)>> :
                               overflow_checks \in BOOLEAN}
    /\ UNCHANGED <<matches, target, inserted, matchVars, runVars>>

NextInsert == InsertMatchesInTarget \/ InsertOtherMatches

SpecInsert == InitInsert /\ [][NextInsert]_vars

\* insert_matches_in_target on one placeholder with a digit run that is
\* short, padded with zeros beyond the width of a usize, or as long as
\* usize::MAX itself
MaxDigitRun == 2
MaxIndexCaptures == 12

\* usize::MAX + 1 = 2^64 = LimbBase^LimbCount, in decimal
UsizeModulus ==
    <<"1", "8", "4", "4", "6", "7", "4", "4", "0", "7",
      "3", "7", "0", "9", "5", "5", "1", "6", "1", "6">>

ShortRuns == StringsUpTo({"0", "1", "2"}, MaxDigitRun)

\* the twenty-digit numbers from 2^64 - 6 to 2^64 + 3
WideRuns ==
    {SubSeq(UsizeModulus, 1, Len(UsizeModulus) - 1) \o <<Digits[d]>> : d \in 1..Len(Digits)}

PaddedRuns == {[k \in 1..Len(UsizeModulus) |-> "0"] \o run : run \in ShortRuns}

IndexTemplates ==
    {before \o <<"#">> \o run \o after :
        before \in {<<>>, <<"a">>},
        run \in ShortRuns \cup WideRuns \cup PaddedRuns,
        after \in {<<>>, <<"a">>, <<"#", "1">>}}

\* MaxIndexCaptures captures, the k-th of length k
CaptureRamp == [k \in 1..MaxIndexCaptures |-> [j \in 1..k |-> "x"]]

InitIndex ==
    /\ matches \in CaptureLists \cup {CaptureRamp}
    /\ target \in IndexTemplates
    /\ inserted = <<>>
    /\ matches2 = <<>> /\ inserted2 = <<>>
    /\ source_pattern = <<>> /\ filename = <<>> /\ is_match = <<>>
    /\ file_matches = <<>>
    /\ IdleRun

SpecIndex == InitIndex /\ [][InsertMatchesInTarget]_vars


\* ----------------------------------------------- the tool, run by run
MaxFiles == 2
MaxRuns == 2

SourceDir == <<"d">>
FileNames == {<<"a">>, <<"a", "a">>, <<"a", "b">>, <<"b">>}
SubDir == <<"d", "/", "a", "a", "a">>

SourcePaths ==
    {<<"d", "/", "*">>, <<"d", "/", "a", "*">>, <<"x", "/", "*">>, <<>>}

TargetPaths ==
    {<<"d", "/", "#", "1", "a">>, <<"d", "/", "#", "1", "b">>, <<"d", "/", "b">>,
     <<"x", "/", "#", "1">>, <<"#", "1">>, <<>>}

File(data) == [is_dir |-> FALSE, data |-> data]
Directory == [is_dir |-> TRUE, data |-> <<>>]

\* the directory d with some regular files, each holding its own content
\* (here: its first path), and perhaps a subdirectory
FileSystems ==
    {[p \in {SourceDir} \cup {join(SourceDir, n) : n \in names} \cup sub |->
         IF p = SourceDir \/ p \in sub THEN Directory ELSE File(p)] :
       names \in {ns \in SUBSET FileNames : Cardinality(ns) <= MaxFiles},
       sub \in {{}, {SubDir}}}

RECURSIVE Orders(_)
Orders(S) ==
    IF S = {} THEN {<<>>}
    ELSE UNION {{<<x>> \o rest : rest \in Orders(S \ {x})} : x \in S}

Init ==
    /\ force_move \in BOOLEAN
    /\ source_path \in SourcePaths
    /\ target_path \in TargetPaths
    /\ fs \in FileSystems
    /\ fs0 = fs
    /\ files_to_move = <<>> /\ next = 1
    /\ stdout = <<>> /\ renamed = <<>>
    /\ result = NoResult
    /\ pc = "start"
    /\ run_no = 1
    /\ source_pattern = <<>> /\ filename = <<>> /\ is_match = <<>>
    /\ file_matches = <<>>
    /\ matches = <<>> /\ target = <<>> /\ inserted = <<>>
    /\ matches2 = <<>> /\ inserted2 = <<>>

\* run of main.rs up to FilesMover::run: the scan of the source directory,
\* in whatever order the directory lists its entries, and the resolution of
\* every target; the loop of FilesMover::run over no pair returns Ok at once
Prepare ==
    /\ pc = "start"
    /\ \E listing \in Orders(entries(fs, parent(source_path))) :
          \E r \in {prepare(fs, source_path, target_path, listing, overflow_checks) :
                       overflow_checks \in BOOLEAN} :
          IF r.kind = "Ok"
          THEN /\ files_to_move' = r.pairs
               /\ IF r.pairs = <<>>
                  THEN pc' = "done" /\ result' = Ok(<<>>)
                  ELSE pc' = "moving" /\ result' = result
          ELSE /\ files_to_move' = <<>>
               /\ pc' = "done"
               /\ result' = [kind |-> r.kind, value |-> r.value, pos |-> r.pos]
    /\ UNCHANGED <<argVars, fs, fs0, next, stdout, renamed, run_no, matchVars, insertVars>>

\* one turn of the loop of FilesMover::run, and its return after the last
MoveFile ==
    /\ pc = "moving"
    /\ \E os_error \in BOOLEAN :
          LET pair == files_to_move[next]
              r == move_file(fs, force_move, pair.from, pair.to, os_error)
          IN  /\ fs' = r.fs
              /\ stdout' = stdout \o r.printed
              /\ renamed' = renamed \o r.renamed
              /\ IF r.result.kind # "Ok"
                 THEN /\ result' = r.result
                      /\ pc' = "done"
                      /\ next' = next
                 ELSE /\ next' = next + 1
                      /\ IF next = Len(files_to_move)
                         THEN result' = Ok(<<>>) /\ pc' = "done"
                         ELSE result' = result /\ pc' = "moving"
    /\ UNCHANGED <<argVars, fs0, files_to_move, run_no, matchVars, insertVars>>

\* the tool is started again with the same arguments
RunAgain ==
    /\ pc = "done"
    /\ run_no < MaxRuns
    /\ run_no' = run_no + 1
    /\ pc' = "start"
    /\ fs0' = fs
    /\ files_to_move' = <<>> /\ next' = 1
    /\ stdout' = <<>> /\ renamed' = <<>>
    /\ result' = NoResult
    /\ UNCHANGED <<argVars, fs, matchVars, insertVars>>

Next == Prepare \/ MoveFile \/ RunAgain

Spec == Init /\ [][Next]_vars


\* ------------------------------------------------------------ claims
Chars(s) == {s[i] : i \in 1..Len(s)}

\* The wildcard reading of a pattern, on the pattern itself: from pattern
\* position i and filename position j, a literal consumes exactly itself and
\* a star consumes any run of characters other than the dot.
RECURSIVE WildcardAgrees(_, _, _, _)
WildcardAgrees(p, i, f, j) ==
    IF i > Len(p) THEN j > Len(f)
    ELSE IF p[i] = "*"
         THEN \/ WildcardAgrees(p, i + 1, f, j)
              \/ (j <= Len(f) /\ f[j] # "." /\ WildcardAgrees(p, i, f, j + 1))
         ELSE j <= Len(f) /\ f[j] = p[i] /\ WildcardAgrees(p, i + 1, f, j + 1)

\* C1: is_file_match_pattern is true exactly when the whole filename agrees
\* with the pattern, literals matching themselves and each star a run of
\* zero or more characters other than the dot.
C1_MatchIffAgrees ==
    is_match # <<>> => is_match[1] = WildcardAgrees(source_pattern, 1, filename, 1)

C1_Witness ==
    /\ is_match = <<TRUE>>
    /\ {"*", "+", "."} \subseteq Chars(source_pattern)
    /\ Len(filename) > Len(source_pattern)

\* the pattern with its k-th star replaced by ws[k]
RECURSIVE Subst(_, _)
Subst(p, ws) ==
    IF p = <<>> THEN <<>>
    ELSE IF Head(p) = "*" THEN Head(ws) \o Subst(Tail(p), Tail(ws))
         ELSE <<Head(p)>> \o Subst(Tail(p), ws)

StarCount(p) == Cardinality({i \in 1..Len(p) : p[i] = "*"})

NonDotSubstrings(f) ==
    {s \in {SubSeq(f, a, b) : a \in 1..(Len(f) + 1), b \in 0..Len(f)} : "." \notin Chars(s)}

\* the ways the wildcards of p can consume f: one dot-free string per star
Consumptions(p, f) ==
    {ws \in [1..StarCount(p) -> NonDotSubstrings(f)] : Subst(p, ws) = f}

\* ws gives every wildcard, from the left, as much as any consumption can
LeftmostLongest(ws, all) ==
    \A other \in all :
        other = ws
        \/ \E k \in 1..Len(ws) :
              /\ \A j \in 1..(k - 1) : Len(other[j]) = Len(ws[j])
              /\ Len(other[k]) < Len(ws[k])

NonEmptyString(s) == s # <<>>

\* C2: for a filename that matches, get_file_matches returns the strings the
\* wildcards consumed, in the order of the wildcards, the empty ones left
\* out.
C2_CapturesAreNonEmptyConsumptions ==
    (file_matches # <<>> /\ WildcardAgrees(source_pattern, 1, filename, 1)) =>
        \E ws \in Consumptions(source_pattern, filename) :
            /\ LeftmostLongest(ws, Consumptions(source_pattern, filename))
            /\ file_matches[1] = SelectSeq(ws, NonEmptyString)

C2_Witness ==
    /\ file_matches # <<>>
    /\ WildcardAgrees(source_pattern, 1, filename, 1)
    /\ StarCount(source_pattern) = 2
    /\ Len(file_matches[1]) = 1
    /\ Len(source_pattern) = 3

\* --- the template as the syntax describes it: a placeholder is a `#` and
\* the maximal run of decimal digits after it
RECURSIVE DigitRunLen(_, _)
DigitRunLen(t, i) ==
    IF i > Len(t) \/ t[i] \notin {"0", "1", "2", "3", "4", "5", "6", "7", "8", "9"}
    THEN 0 ELSE 1 + DigitRunLen(t, i + 1)

DecimalDigit(c) ==
    CASE c = "0" -> 0 [] c = "1" -> 1 [] c = "2" -> 2 [] c = "3" -> 3 [] c = "4" -> 4
      [] c = "5" -> 5 [] c = "6" -> 6 [] c = "7" -> 7 [] c = "8" -> 8 [] c = "9" -> 9

RECURSIVE DecimalValue(_)
DecimalValue(ds) ==
    IF ds = <<>> THEN 0
    ELSE DecimalValue(SubSeq(ds, 1, Len(ds) - 1)) * 10 + DecimalDigit(ds[Len(ds)])

Placeholders(t) == {i \in 1..Len(t) : t[i] = "#"}

PlaceholderIndex(t, i) == DecimalValue(SubSeq(t, i + 1, i + DigitRunLen(t, i + 1)))

InvalidPlaceholders(t, n) ==
    {i \in Placeholders(t) : PlaceholderIndex(t, i) = 0 \/ PlaceholderIndex(t, i) > n}

OnlyValidOnce(t, n) ==
    /\ InvalidPlaceholders(t, n) = {}
    /\ \A i, j \in Placeholders(t) :
          PlaceholderIndex(t, i) = PlaceholderIndex(t, j) => i = j

\* the template from position i on, each placeholder replaced by its capture
RECURSIVE Substitute(_, _, _)
Substitute(t, i, c) ==
    IF i > Len(t) THEN <<>>
    ELSE IF t[i] = "#"
         THEN c[PlaceholderIndex(t, i)] \o Substitute(t, i + 1 + DigitRunLen(t, i + 1), c)
         ELSE <<t[i]>> \o Substitute(t, i + 1, c)

\* C4: on a template whose placeholders are only #1..#n, each at most once,
\* insert_matches_in_target succeeds with the template in which every
\* placeholder #k is replaced by the k-th capture and all else is unchanged.
C4_PureSubstitution ==
    (inserted # <<>> /\ OnlyValidOnce(target, Len(matches))) =>
        inserted[1] = Ok(Substitute(target, 1, matches))

C4_Witness ==
    /\ inserted # <<>>
    /\ inserted[1].kind = "Ok"
    /\ Len(matches) = 2
    /\ matches[1] # matches[2]
    /\ \E i, j \in Placeholders(target) :
          i < j /\ PlaceholderIndex(target, i) = 2 /\ PlaceholderIndex(target, j) = 1

UsedIndices(t) == {PlaceholderIndex(t, i) : i \in Placeholders(t)}

\* C5 as stated: on such a template two capture lists of the same length
\* give the same output only if they agree on every capture the template
\* uses.
C5_EqualOutputEqualValues ==
    (/\ inserted # <<>> /\ inserted2 # <<>>
     /\ OnlyValidOnce(target, Len(matches))
     /\ inserted[1] = inserted2[1]) =>
        \A k \in UsedIndices(target) : matches[k] = matches2[k]

\* C5: the same, for capture lists whose used captures have pairwise the
\* same lengths.
C5_EqualOutputEqualValuesSameLengths ==
    (/\ inserted # <<>> /\ inserted2 # <<>>
     /\ OnlyValidOnce(target, Len(matches))
     /\ \A k \in UsedIndices(target) : Len(matches[k]) = Len(matches2[k])
     /\ inserted[1] = inserted2[1]) =>
        \A k \in UsedIndices(target) : matches[k] = matches2[k]

C5_Witness ==
    /\ inserted # <<>> /\ inserted2 # <<>>
    /\ OnlyValidOnce(target, Len(matches))
    /\ Cardinality(UsedIndices(target)) = 2
    /\ inserted[1] = inserted2[1]
    /\ matches[1] # matches[2]

\* a marker with no digit after it
BareMarkers(t) == {i \in Placeholders(t) : DigitRunLen(t, i + 1) = 0}

FailedInBatch == pc = "done" /\ result.kind # "Ok" /\ files_to_move # <<>>

Holds(fsys, path, data) ==
    path \in DOMAIN fsys /\ ~fsys[path].is_dir /\ fsys[path].data = data

\* C6 as stated: when the move of the k-th pair fails, no later pair is
\* renamed, the files of the pairs before k are at their targets and the
\* files of the k-th and the later pairs are where they were.
C6_HaltOnFirstError ==
    FailedInBatch =>
        /\ renamed = SubSeq(files_to_move, 1, next - 1)
        /\ \A j \in 1..(next - 1) :
              Holds(fs, files_to_move[j].to, fs0[files_to_move[j].from].data)
        /\ \A j \in next..Len(files_to_move) :
              Holds(fs, files_to_move[j].from, fs0[files_to_move[j].from].data)

\* the same in a run without the overwrite flag
C6_HaltOnFirstErrorNoForce == force_move \/ C6_HaltOnFirstError

C6_HaltOnly ==
    FailedInBatch => renamed = SubSeq(files_to_move, 1, next - 1)

\* C7: the target is validated before each rename and the rename happens
\* only if it passes: a missing non-empty parent gives DirectoryNotFound;
\* otherwise an existing target gives FileAlreadyExists unless overwrite is
\* forced, and with overwrite forced never.
C7_ValidationBeforeRename ==
    [][(pc = "moving" /\ has_parent(files_to_move[next].to)) =>
          LET to == files_to_move[next].to
              missing == parent(to) # <<>> /\ parent(to) \notin DOMAIN fs
              taken == ~force_move /\ to \in DOMAIN fs
          IN  /\ missing =>
                    /\ result' = Err("DirectoryNotFound", parent(to))
                    /\ fs' = fs /\ renamed' = renamed
              /\ (~missing /\ taken) =>
                    /\ result' = Err("FileAlreadyExists", to)
                    /\ fs' = fs /\ renamed' = renamed
              /\ force_move => result'.kind # "FileAlreadyExists"
              /\ (~missing /\ ~taken) =>
                    result'.kind \notin {"DirectoryNotFound", "FileAlreadyExists"}
      ]_vars

C7_Witness ==
    /\ pc = "done"
    /\ result.kind = "FileAlreadyExists"
    /\ next = 2
    /\ Len(renamed) = 1

\* the regular files of the source directory whose names agree with the
\* pattern
MatchingFiles(fsys, source) ==
    {p \in DOMAIN fsys :
        /\ ~fsys[p].is_dir
        /\ p = join(parent(source), file_name(p))
        /\ WildcardAgrees(file_name(source), 1, file_name(p), 1)}

Readable(fsys, source) ==
    /\ source # <<>> /\ file_name(source) # <<>>
    /\ (parent(source) = <<>> \/ (parent(source) \in DOMAIN fsys /\ fsys[parent(source)].is_dir))

\* C8: when the readable source directory holds no regular file whose name
\* matches the pattern, the run ends with NoFilesForPattern carrying the
\* pattern and renames nothing; so does a second run after the first has
\* renamed every matching file away.
C8_NoFilesForPattern ==
    (pc = "done" /\ Readable(fs0, source_path) /\ MatchingFiles(fs0, source_path) = {}) =>
        /\ result = Err("NoFilesForPattern", file_name(source_path))
        /\ fs = fs0
        /\ renamed = <<>> /\ stdout = <<>>

C8_Witness ==
    /\ pc = "done"
    /\ run_no = 2
    /\ result.kind = "NoFilesForPattern"
    /\ \E p \in DOMAIN fs : ~fs[p].is_dir /\ fs[p].data # p
    /\ \E p \in DOMAIN fs : fs[p].is_dir /\ p # SourceDir

\* C9: standard output holds exactly one line `from -> to` for every rename
\* that succeeded, in the order of processing; the pair that failed and
\* the pairs after it have no line.
C9_ConfirmationLines ==
    pc \in {"moving", "done"} =>
        /\ stdout = [i \in 1..Len(renamed) |->
                        renamed[i].from \o <<" ", "-", ">", " ">> \o renamed[i].to]
        /\ renamed = SubSeq(files_to_move, 1, Len(renamed))
        /\ FailedInBatch => Len(stdout) = next - 1

C9_Witness ==
    /\ FailedInBatch
    /\ result.kind = "MoveError"
    /\ Len(stdout) = 1
    /\ Len(files_to_move) = 2

\* --- the digit run of a placeholder, compared without computing its value
DigitRun(t, i) == SubSeq(t, i + 1, i + DigitRunLen(t, i + 1))

RECURSIVE SignificantDigits(_)
SignificantDigits(ds) ==
    IF ds # <<>> /\ Head(ds) = "0" THEN SignificantDigits(Tail(ds)) ELSE ds

RECURSIVE DecimalLen(_)
DecimalLen(n) == IF n < 10 THEN 1 ELSE 1 + DecimalLen(n \div 10)

\* the decimal value of the digit run ds is greater than n
RunExceeds(ds, n) ==
    LET significant == SignificantDigits(ds) IN
    \/ Len(significant) > DecimalLen(n)
    \/ DecimalValue(significant) > n

\* C11: a placeholder is resolved with the decimal value of its whole digit
\* run, however long the run is: a run whose value exceeds the number of
\* captures makes insert_matches_in_target fail with InvalidTargetPath (it
\* never resolves to a smaller, wrapped index), and when every run has a
\* value in 1..n the output is the template with each placeholder replaced
\* by the capture of that value (#12 is the 12th capture, leading zeros do
\* not count).
C11_IndexIsDecimalValue ==
    inserted # <<>> =>
        LET n == Len(matches)
            exceeding == {i \in Placeholders(target) : RunExceeds(DigitRun(target, i), n)}
            zero == {i \in Placeholders(target) : SignificantDigits(DigitRun(target, i)) = <<>>}
        IN  /\ exceeding # {} => inserted[1].kind = "InvalidTargetPath"
            /\ (exceeding = {} /\ zero = {}) =>
                  inserted[1] = Ok(Substitute(target, 1, matches))

\* the number of captures the file at path p gives to the template
CaptureCount(source, p) == Len(get_file_matches(file_name(source), file_name(p)))

\* C12: every target is resolved before the first rename: when the template
\* cannot be resolved for some matched file, the run ends with
\* InvalidTargetPath and nothing has been renamed or printed, whatever the
\* order of the files and although other files resolve.
C12_ResolutionBeforeRename ==
    (/\ pc = "done"
     /\ Readable(fs0, source_path)
     /\ \E p \in MatchingFiles(fs0, source_path) :
           InvalidPlaceholders(target_path, CaptureCount(source_path, p)) # {}) =>
        /\ result.kind = "InvalidTargetPath"
        /\ fs = fs0
        /\ files_to_move = <<>>
        /\ renamed = <<>> /\ stdout = <<>>

C12_Witness ==
    /\ pc = "done"
    /\ result.kind = "InvalidTargetPath"
    /\ fs = fs0
    /\ \E p, q \in MatchingFiles(fs0, source_path) :
          /\ InvalidPlaceholders(target_path, CaptureCount(source_path, p)) # {}
          /\ InvalidPlaceholders(target_path, CaptureCount(source_path, q)) = {}

\* the regular files and the directories of a file system
RegularFiles(fsys) == {p \in DOMAIN fsys : ~fsys[p].is_dir}
Directories(fsys) == {p \in DOMAIN fsys : fsys[p].is_dir}
Contents(fsys) == {fsys[p].data : p \in RegularFiles(fsys)}

\* as many regular files, with the same contents, and the same directories
SameFiles(fsys, other) ==
    /\ Cardinality(RegularFiles(fsys)) = Cardinality(RegularFiles(other))
    /\ Contents(fsys) = Contents(other)
    /\ Directories(fsys) = Directories(other)

\* C13: in a run without the overwrite flag every rename that is performed
\* has a target that did not exist just before it, and every step leaves
\* the number of files and their contents as they were, before the step and
\* at the start of the run.
C13_NoFileReplacedOrLost ==
    [][~force_move =>
          LET performed == pc = "moving" /\ Len(renamed') = Len(renamed) + 1 IN
          /\ performed => files_to_move[next].to \notin DOMAIN fs
          /\ fs' # fs => performed
          /\ SameFiles(fs', fs)
          /\ SameFiles(fs', fs0')
      ]_vars

C13_Witness ==
    /\ ~force_move
    /\ pc = "done"
    /\ result.kind = "FileAlreadyExists"
    /\ Len(renamed) = 1
    /\ next = 2
    /\ files_to_move[1].to = files_to_move[2].to
    /\ fs # fs0

\* C14: when a run ends with Ok, with or without the overwrite flag, every
\* matched file is at its own resolved target: for each pair, what was at
\* `from` before the run is at `to` after it.
C14_EveryFileAtItsTarget ==
    (pc = "done" /\ result.kind = "Ok" /\ files_to_move # <<>>) =>
        \A j \in 1..Len(files_to_move) :
            Holds(fs, files_to_move[j].to, fs0[files_to_move[j].from].data)

\* the same in a run without the overwrite flag
C14_EveryFileAtItsTargetNoForce == force_move \/ C14_EveryFileAtItsTarget

====
